---- MODULE Spec2Model ----
(***************************************************************************)
(* A model of zrender's Element (src/src/Element.ts): the state overlay    *)
(* engine (saveStateToNormal, ensureState, useState, useStates,            *)
(* _applyStateObj) and the animate-merge algorithm (animateTo,             *)
(* animateToShallow, addAnimator, stopAnimation).                          *)
(*                                                                         *)
(* JavaScript values are modelled with their identity where the code       *)
(* shares them: a vector property (position, scale, origin) is an address  *)
(* into el.arr, a textConfig is an address into el.cfg.  An optional value *)
(* is None (null or undefined) or Some(v).                                 *)
(***************************************************************************)
EXTENDS Integers, Sequences, FiniteSets, TLC

VARIABLES
    el,      \* the Element: its fields, the objects it references, and what
             \* the last operation did to it (marked, refreshed, labelCalls, writes)
    last,    \* the last operation on the element: a useState call with its
             \* arguments, or another operation
    repeat,  \* the last operation is the same call as the one before it
    run,     \* the latest animateTo/animateFrom call: the `count` of its
             \* closure, how often its callback ran, and what it created
    nodes    \* a scene of elements that claim clip paths: for each its host
             \* (__zr), its clip path and its clip target

vars == <<el, last, repeat, run, nodes>>

-----------------------------------------------------------------------------
(* Bounds of the model *)

\* longest active-state stack (currentStates) explored
MaxStack == 3
\* longest list handed to useStates
MaxList == 3
\* most Animator objects alive at a time
MaxAnimators == 2
\* farthest translation a drag reaches, per axis
MaxShift == 3

-----------------------------------------------------------------------------
(* Values *)

None == <<>>
Some(v) == <<v>>

PRESERVED_NORMAL_STATE == "__zr_normal__"

PRIMARY_STATES_KEYS == <<"position", "scale", "rotation", "origin", "ignore">>

\* Keys that hold a vector, which JavaScript shares by reference.
VectorKeys == {"position", "scale", "origin"}

\* The state names a caller passes: "a" and "b" are defined by the user,
\* "c" is not.
UserStates == {"a", "b"}
CallNames == {"a", "b", "c", PRESERVED_NORMAL_STATE}
\* The names handed to useStates, and those handed to ensureState (one that
\* has an entry, one that has none).
ListNames == {"a", "b", "c"}
EnsureNames == {"a", PRESERVED_NORMAL_STATE}

\* A textConfig object: only the keys the Element itself reads.
Unset == "undefined"
Null == "null"
EmptyConfig == [position |-> Unset, insideFill |-> Unset, insideStroke |-> Unset]

\* The labels (RichText elements) a caller attaches.
Labels == {"label", "label2"}

\* util.extend(target, source): copies every own key of source over target.
Extend(target, source) ==
    [k \in DOMAIN target |-> IF source[k] # Unset THEN source[k] ELSE target[k]]

\* A state object `{}`: no key defined.
EmptyState ==
    [position |-> None, scale |-> None, rotation |-> None, origin |-> None,
     ignore |-> None, textConfig |-> None]

\* The vector a state s owns for key k.
StateAddr(s, k) == s \o "." \o k
\* The vectors the user states own.
StateAddrs == {StateAddr(s, k) : s \in UserStates, k \in VectorKeys}

StateVector(s, k) ==
    IF s = "a"
    THEN (IF k = "position" THEN <<1, 1>> ELSE IF k = "scale" THEN <<2, 2>> ELSE <<3, 3>>)
    ELSE (IF k = "position" THEN <<4, 4>> ELSE IF k = "scale" THEN <<5, 5>> ELSE <<6, 6>>)

\* The state object of user state s that defines exactly the keys in K.
StateObject(s, K) ==
    [position |-> IF "position" \in K THEN Some(StateAddr(s, "position")) ELSE None,
     scale |-> IF "scale" \in K THEN Some(StateAddr(s, "scale")) ELSE None,
     rotation |-> IF "rotation" \in K THEN Some(IF s = "a" THEN 1 ELSE 2) ELSE None,
     origin |-> IF "origin" \in K THEN Some(StateAddr(s, "origin")) ELSE None,
     ignore |-> IF "ignore" \in K THEN Some(s = "a") ELSE None,
     textConfig |-> IF "textConfig" \in K
                    THEN Some([EmptyConfig EXCEPT
                                 !.position = IF s = "a" THEN "inside" ELSE "top",
                                 !.insideFill = IF s = "a" THEN Unset ELSE "auto"])
                    ELSE None]

\* The key sets a user state may define: each key is defined by some and
\* left out by others.
DefinedKeySets ==
    { {},
      {"position", "rotation", "textConfig"},
      {"scale", "origin", "ignore"} }

\* The array a descriptor passed to animateTo/animateFrom gives for key k.
DescAddr(k) ==
    CASE k = "position" -> "d.position"
      [] k = "scale" -> "d.scale"
      [] k = "origin" -> "d.origin"

Addrs ==
    {"p0", "s0", "o0", "ox", "oy", "oa", DescAddr("origin")}
        \cup StateAddrs

ConfigAddrs == {"t1", "t2"}

-----------------------------------------------------------------------------
(* The Element after construction *)

\* new Element(props): Transformable gives position [0,0], scale [1,1],
\* rotation 0; the prototype gives ignore false and __dirty true; origin is
\* set only if props gives one.  ks maps each user state to the keys it
\* defines, orig says whether props gave an origin, label whether a
\* textContent was attached together with its textConfig.
NewElement(ks, orig, label) ==
    [position |-> Some("p0"),
     scale |-> Some("s0"),
     rotation |-> Some(0),
     origin |-> IF orig THEN Some("o0") ELSE None,
     ignore |-> Some(FALSE),
     textConfig |-> IF label THEN Some("t1") ELSE None,
     textContent |-> IF label THEN Some("label") ELSE None,
     zr |-> None,
     dirty |-> TRUE,
     \* _insideTextColor, the object update() computes the label's colour
     \* into, and for each label the default text colour it was given: none
     \* or a reference to that object
     insideTextColor |-> None,
     labelColor |-> [l \in Labels |-> None],
     \* the matrix of Transformable, unset until it is computed; draggable
     \* is false, true, or the axis dragging is locked to
     transform |-> None,
     draggable |-> "false",
     \* `style` is a sub-object only subclasses have; animators is the list
     \* of Animator ids, anim the Animator objects
     style |-> None,
     animators |-> <<>>,
     anim |-> [i \in 1..MaxAnimators |-> None],
     currentStates |-> <<>>,
     states |-> [n \in CallNames |->
                    IF n \in UserStates THEN Some(StateObject(n, ks[n])) ELSE None],
     normalState |-> None,
     arr |-> [a \in Addrs |->
                 IF a = "p0" THEN <<0, 0>>
                 ELSE IF a = "s0" THEN <<1, 1>>
                 ELSE IF a = "o0" /\ orig THEN <<7, 7>>
                 ELSE IF \E s \in UserStates, k \in VectorKeys :
                            a = StateAddr(s, k) /\ k \in ks[s]
                      THEN LET s == CHOOSE t \in UserStates :
                                        \E k \in VectorKeys : a = StateAddr(t, k)
                               k == CHOOSE j \in VectorKeys : a = StateAddr(s, j)
                           IN  StateVector(s, k)
                 ELSE None],
     cfg |-> [t \in ConfigAddrs |->
                 IF t = "t1" /\ label
                 THEN Some([EmptyConfig EXCEPT !.position = "inside",
                                               !.insideFill = "red"])
                 ELSE None],
     \* what the last operation did
     marked |-> FALSE,
     refreshed |-> FALSE,
     labelCalls |-> <<>>,
     writes |-> {},
     stopCalls |-> <<>>,
     driftBy |-> None,
     listGiven |-> None,
     labelMarked |-> FALSE,
     absent |-> [p \in {<<"", "origin">>, <<"style", "x">>, <<"style", "n">>} |-> None],
     \* the primary properties as read before the first non-normal switch
     pre |-> None]

\* The value a caller reads from a primary property: a vector by its contents.
Read(e, key) ==
    IF key \in VectorKeys
    THEN (IF e[key] = None THEN None ELSE Some(e.arr[e[key][1]]))
    ELSE e[key]

ReadPrimary(e) ==
    [k \in {PRIMARY_STATES_KEYS[i] : i \in 1..Len(PRIMARY_STATES_KEYS)} |-> Read(e, k)]

\* The textConfig a caller reads.
ReadConfig(e) ==
    IF e.textConfig = None THEN None ELSE e.cfg[e.textConfig[1]]

\* An operation begins: nothing done yet.
Begin(e) ==
    [e EXCEPT !.marked = FALSE, !.refreshed = FALSE, !.labelCalls = <<>>,
              !.writes = {}, !.stopCalls = <<>>, !.driftBy = None,
              !.listGiven = None, !.labelMarked = FALSE,
              !.absent = [p \in DOMAIN e.absent |-> None]]

\* Objects no field references any more are dropped.
Collect(e) ==
    LET liveCfg == {t \in ConfigAddrs :
                       \/ e.textConfig = Some(t)
                       \/ (e.normalState # None /\ e.normalState[1].textConfig = Some(t))}
    IN  [e EXCEPT !.cfg = [t \in ConfigAddrs |-> IF t \in liveCfg THEN e.cfg[t] ELSE None]]

\* The scene: two elements that claim clip paths and two clip paths, which
\* are elements themselves.  None of them has animators or a label.
Owners == {"n1", "n2"}
Clips == {"c1", "c2"}
Hosts == {"zr", "zr2"}

\* An element of the scene; reg holds the hosts whose animation was handed
\* the element's animators and has not been told to remove them.
NewNode ==
    [zr |-> None, clipPath |-> None, clipTarget |-> None, textContent |-> None,
     reg |-> {}, dirty |-> TRUE]

NewNodes == [n \in Owners \cup Clips \cup Labels |-> NewNode]

-----------------------------------------------------------------------------
(* The state overlay engine *)

markRedraw(e) ==
    [e EXCEPT !.dirty = TRUE, !.marked = TRUE,
              !.refreshed = (e.refreshed \/ e.zr # None)]

\* dirty()
dirty(e) == markRedraw(e)

\* updateDuringAnimation(key)
updateDuringAnimation(e, key) == markRedraw(e)

hasState(e) == Len(e.currentStates) > 0

saveStateToNormal(e) ==
    LET fresh == (e.origin = None)
    IN  [e EXCEPT
           !.normalState = Some([textConfig |-> e.textConfig,
                                 position |-> e.position,
                                 scale |-> e.scale,
                                 rotation |-> e.rotation,
                                 origin |-> IF fresh THEN Some("ox") ELSE e.origin,
                                 ignore |-> e.ignore]),
           !.arr = IF fresh THEN [e.arr EXCEPT !["ox"] = <<0, 0>>] ELSE e.arr]

ensureState(e, name) ==
    IF e.states[name] = None
    THEN [e EXCEPT !.states[name] = Some(EmptyState)]
    ELSE e

\* One turn of the loop of _applyStateObj over PRIMARY_STATES_KEYS.
applyKey(e, state, key, needsRestoreToNormal) ==
    IF state # None /\ state[1][key] # None
    THEN [e EXCEPT ![key] = state[1][key], !.writes = @ \cup {key}]
    ELSE IF needsRestoreToNormal
    THEN [e EXCEPT ![key] = e.normalState[1][key], !.writes = @ \cup {key}]
    ELSE e

RECURSIVE applyKeys(_, _, _, _)
applyKeys(e, state, i, needsRestoreToNormal) ==
    IF i > Len(PRIMARY_STATES_KEYS)
    THEN e
    ELSE applyKeys(applyKey(e, state, PRIMARY_STATES_KEYS[i], needsRestoreToNormal),
                   state, i + 1, needsRestoreToNormal)

\* The textConfig part of _applyStateObj: a state's textConfig is merged
\* into a new object over the current or the normal one.
applyTextConfig(e, state, keepCurrentStates, needsRestoreToNormal) ==
    LET normalState == e.normalState[1] IN
    IF state # None /\ state[1].textConfig # None
    THEN LET base == IF keepCurrentStates THEN e.textConfig ELSE normalState.textConfig
             from == IF base = None THEN EmptyConfig ELSE e.cfg[base[1]][1]
             new == IF normalState.textConfig = Some("t1") THEN "t2" ELSE "t1"
         IN  [e EXCEPT !.textConfig = Some(new),
                       !.cfg[new] = Some(Extend(from, state[1].textConfig[1])),
                       !.writes = @ \cup {"textConfig"}]
    ELSE IF needsRestoreToNormal
    THEN [e EXCEPT !.textConfig = normalState.textConfig,
                   !.writes = @ \cup {"textConfig"}]
    ELSE e

applyStateObj(e, state, keepCurrentStates) ==
    LET needsRestoreToNormal == (state = None) \/ ~keepCurrentStates
    IN  applyKeys(applyTextConfig(e, state, keepCurrentStates, needsRestoreToNormal),
                  state, 1, needsRestoreToNormal)

\* this._textContent.useState(stateName): the label is told, if there is one.
labelUseState(e, stateName) ==
    IF e.textContent # None
    THEN [e EXCEPT !.labelCalls = Append(@, stateName)]
    ELSE e

\* switchState without the test for a missing state object.
switchState_unchecked(e, stateName, keepCurrentStates) ==
    LET toNormalState == (stateName = PRESERVED_NORMAL_STATE)
        applied == labelUseState(applyStateObj(e, e.states[stateName], keepCurrentStates),
                                 stateName)
        stacked == [applied EXCEPT !.currentStates =
                       IF toNormalState THEN <<>>
                       ELSE IF ~keepCurrentStates THEN <<stateName>>
                       ELSE Append(@, stateName)]
    IN  markRedraw(stacked)

\* useState from the point where the state object is looked up.
switchState(e, stateName, keepCurrentStates) ==
    LET toNormalState == (stateName = PRESERVED_NORMAL_STATE)
        state == e.states[stateName]
    IN  IF state = None /\ ~toNormalState
        THEN e    \* logError: State not exists
        ELSE LET applied == labelUseState(applyStateObj(e, state, keepCurrentStates),
                                          stateName)
                 stacked == [applied EXCEPT !.currentStates =
                                IF toNormalState THEN <<>>
                                ELSE IF ~keepCurrentStates THEN <<stateName>>
                                ELSE Append(@, stateName)]
             IN  markRedraw(stacked)

\* stateNoChange without the case of a single active state.
stateNoChange_keepOnly(currentStates, stateName, keepCurrentStates) ==
    LET currentStatesCount == Len(currentStates)
    IN  /\ currentStatesCount > 0
        /\ stateName = currentStates[currentStatesCount]
        /\ keepCurrentStates

\* stateNoChange without the case of keepCurrentStates.
stateNoChange_singleOnly(currentStates, stateName, keepCurrentStates) ==
    LET currentStatesCount == Len(currentStates)
    IN  /\ currentStatesCount > 0
        /\ stateName = currentStates[currentStatesCount]
        /\ currentStatesCount = 1

\* stateNoChange, but the name is looked for anywhere on the stack.
stateNoChange_anywhere(currentStates, stateName, keepCurrentStates) ==
    LET currentStatesCount == Len(currentStates)
    IN  /\ \E i \in 1..currentStatesCount : stateName = currentStates[i]
        /\ (keepCurrentStates \/ currentStatesCount = 1)

\* The stateNoChange test of useState.
stateNoChange(currentStates, stateName, keepCurrentStates) ==
    LET currentStatesCount == Len(currentStates)
    IN  /\ currentStatesCount > 0
        /\ stateName = currentStates[currentStatesCount]
        /\ (keepCurrentStates \/ currentStatesCount = 1)

useState(e, stateName, keepCurrentStates) ==
    LET toNormalState == (stateName = PRESERVED_NORMAL_STATE)
    IN  IF ~hasState(e) /\ toNormalState
        THEN e
        ELSE LET saved == IF ~hasState(e)
                          THEN [saveStateToNormal(e) EXCEPT !.pre = Some(ReadPrimary(e))]
                          ELSE e
             IN  IF stateNoChange(saved.currentStates, stateName, keepCurrentStates)
                 THEN saved
                 ELSE Collect(switchState(saved, stateName, keepCurrentStates))

RECURSIVE useStatesFrom(_, _, _)

\* useStates, but the first name is layered over the active stack as well.
useStatesFrom_keepAll(e, states, i) ==
    IF i > Len(states)
    THEN e
    ELSE useStatesFrom(useState(e, states[i], TRUE), states, i + 1)

useStatesFrom(e, states, i) ==
    IF i > Len(states)
    THEN e
    ELSE useStatesFrom(useState(e, states[i], i > 1), states, i + 1)

useStates(e, states) == useStatesFrom(e, states, 1)

clearStates(e) == useState(e, PRESERVED_NORMAL_STATE, FALSE)

-----------------------------------------------------------------------------
(* Animation: descriptors *)

\* The values of the trailing arguments of animateTo: undefined, a number,
\* a string (an easing name) or a function.
Undefined == [type |-> "undefined", num |-> 0, str |-> ""]
Num(n) == [type |-> "number", num |-> n, str |-> ""]
Str(s) == [type |-> "string", num |-> 0, str |-> s]
Fn(f) == [type |-> "function", num |-> 0, str |-> f]

isString(v) == v.type = "string"
isFunction(v) == v.type = "function"
\* !v
Falsy(v) == v = Undefined \/ v = Num(0) \/ v = Str("")


\* A descriptor (the `target` of animateTo/animateFrom) is the sequence of
\* its entries in key order.  An entry is a leaf (a number, written <<v>>,
\* or an array, written <<v, v>>) or a plain object with its own entries.
Leaf(key, v) == [key |-> key, kind |-> "leaf", v |-> v, sub |-> <<>>]
Obj(key, sub) == [key |-> key, kind |-> "obj", v |-> <<>>, sub |-> sub]

\* The object a descriptor gives below `style`: {n: {k: 1}}.
Nested == Obj("n", <<Leaf("k", <<1>>)>>)
\* What a property holds once a nested object was assigned to it.
NestedObject == "object"

\* The descriptors given for `style`: x (equal to the initial value or
\* not) or a nested object.
SubTargets == { <<Leaf("x", <<0>>)>>, <<Leaf("x", <<5>>)>>, <<Nested>> }

\* The entries given at the top level: origin (equal to the initial value or
\* not) and style.
TopEntries ==
    { Leaf("origin", <<7, 7>>), Leaf("origin", <<9, 9>>) }
        \cup {Obj("style", sub) : sub \in SubTargets}

\* Descriptors: any of the top-level keys, in any order.
Targets ==
    {t \in UNION {[1..n -> TopEntries] : n \in 0..2} :
        \A i, j \in 1..Len(t) : i # j => t[i].key # t[j].key}

\* The style objects a subclass instance starts with.
Styles ==
    {Some([x |-> x, n |-> n]) :
        x \in {None, Some(<<0>>)}, n \in {None, Some(NestedObject)}}

\* The leaf properties an animation can carry, as topKey.key.
PathOf(topKey, key) == <<topKey, key>>
Paths == {PathOf("", "origin"), PathOf("style", "x")}
\* The properties a descriptor can name.
KeyPaths == Paths \cup {PathOf("style", "n")}

\* The closure of an animateTo call and what the call did: count is the
\* closure's variable, called the number of callback invocations, sync
\* whether the callback ran before the call returned, thrown whether the
\* call ended in the nesting error, failed whether the callback, a value
\* that is truthy but no function, was called ("callback is not a
\* function"), cancelled whether stopAnimation was called since; made holds the animators the call created, instant those
\* that finished inside start(), ticked those the host ticked to completion,
\* starts how often each was started; carry gives the animator that carries
\* a path, pre the live value before the call and want the descriptor's.
NoRun ==
    [count |-> 0, called |-> 0, sync |-> FALSE, thrown |-> FALSE,
     failed |-> FALSE,
     cancelled |-> FALSE, force |-> FALSE, reverse |-> FALSE,
     equal |-> FALSE, deep |-> FALSE,
     made |-> {}, instant |-> {}, ticked |-> {},
     starts |-> [i \in 1..MaxAnimators |-> 0],
     carry |-> [p \in Paths |-> 0],
     pre |-> [p \in Paths |-> None],
     want |-> [p \in Paths |-> None],
     args |-> <<Undefined, Undefined, Undefined, Undefined>>,
     callback |-> Undefined,
     overflow |-> FALSE]

\* source[innerKey], an array by its contents.
SourceValue(e, topKey, key) ==
    IF topKey = ""
    THEN (IF key \in VectorKeys THEN Read(e, key) ELSE e[key])
    ELSE e[topKey][1][key]

\* The value a caller reads at a path.
LiveAt(e, p) ==
    IF p = PathOf("", "origin") THEN Read(e, "origin")
    ELSE IF e.style = None THEN None
    ELSE IF p = PathOf("style", "n") THEN e.style[1].n
    ELSE e.style[1].x

\* The style object a descriptor's entries make.
StyleOf(sub) ==
    [x |-> IF \E i \in 1..Len(sub) : sub[i].key = "x"
           THEN Some(sub[CHOOSE i \in 1..Len(sub) : sub[i].key = "x"].v)
           ELSE None,
     n |-> IF \E i \in 1..Len(sub) : sub[i].key = "n"
           THEN Some(NestedObject) ELSE None]

\* Every key of the descriptor has a live value equal to the descriptor's.
EqualTarget(e, topKey, target) ==
    /\ Len(target) > 0
    /\ \A i \in 1..Len(target) :
          LET t == target[i]
          IN  /\ SourceValue(e, topKey, t.key) # None
              /\ IF t.kind = "leaf"
                 THEN SourceValue(e, topKey, t.key) = Some(t.v)
                 ELSE /\ topKey = ""
                      /\ Len(t.sub) > 0
                      /\ \A j \in 1..Len(t.sub) :
                            /\ t.sub[j].kind = "leaf"
                            /\ SourceValue(e, t.key, t.sub[j].key) = Some(t.sub[j].v)

\* What target gives at path p, as the property reads once it is assigned;
\* None if target does not name p.
GivenAt(target, p) ==
    IF \E i \in 1..Len(target) : PathOf("", target[i].key) = p
    THEN Some(target[CHOOSE i \in 1..Len(target) : PathOf("", target[i].key) = p].v)
    ELSE IF \E i \in 1..Len(target) :
                \E j \in 1..Len(target[i].sub) :
                    PathOf(target[i].key, target[i].sub[j].key) = p
    THEN LET i == CHOOSE i \in 1..Len(target) :
                      \E j \in 1..Len(target[i].sub) :
                          PathOf(target[i].key, target[i].sub[j].key) = p
             t == target[i].sub[CHOOSE j \in 1..Len(target[i].sub) :
                                    PathOf(target[i].key, target[i].sub[j].key) = p]
         IN  IF t.kind = "obj" THEN Some(NestedObject) ELSE Some(t.v)
    ELSE None

\* The descriptor holds an object nested two levels deep.
DeepTarget(target) ==
    \E i \in 1..Len(target) :
        /\ target[i].kind = "obj"
        /\ \E j \in 1..Len(target[i].sub) : target[i].sub[j].kind = "obj"

-----------------------------------------------------------------------------
(* Animation: the Animator and the host's tick *)

\* new Animator(source, false).whenWithKeys(time, props, keys): obj names
\* the object animated ("" is the element itself), to the final values by
\* key.  counted says the closure's `done` was registered with done(),
\* registered holds the hosts whose animation holds the animator, current
\* says the array the done function of addAnimator holds is the element's
\* animators array, loop is the constructor's second argument.
NewAnimator(topKey, keys, to, time, delay) ==
    [obj |-> topKey, keys |-> keys, to |-> to,
     time |-> IF time = Undefined THEN Num(500) ELSE time,
     delay |-> IF Falsy(delay) THEN Num(0) ELSE delay,
     status |-> "created", counted |-> FALSE, registered |-> {},
     current |-> TRUE, loop |-> FALSE]

\* The smallest id that names no Animator object, neither a live one nor
\* one the latest animateTo call made; 0 if there is none.
FreeId(w) ==
    LET free == {i \in 1..MaxAnimators : w.el.anim[i] = None /\ i \notin w.run.made}
    IN  IF free # {}
        THEN CHOOSE i \in free : \A j \in free : i <= j
        ELSE 0

\* The arrays a field of the element, of its normal state or of one of its
\* states references.
Referenced(e) ==
    {e[k][1] : k \in {j \in VectorKeys : e[j] # None}}
        \cup (IF e.normalState = None THEN {}
              ELSE {e.normalState[1][k][1] :
                       k \in {j \in VectorKeys : e.normalState[1][j] # None}})
        \cup StateAddrs

\* Objects nothing reaches any more are dropped: the arrays not referenced,
\* and the animators off the element's list that the host does not tick.
Sweep(e) ==
    LET referenced == Referenced(e)
    IN
    [e EXCEPT !.arr = [a \in Addrs |-> IF a \in referenced THEN @[a] ELSE None],
              !.anim =
        [i \in 1..MaxAnimators |->
            IF e.anim[i] = None THEN None
            ELSE IF \E k \in 1..Len(e.animators) : e.animators[k] = i THEN e.anim[i]
            ELSE IF e.anim[i][1].status = "running" /\ e.anim[i][1].registered # {}
                 THEN e.anim[i]
            ELSE None]]

\* util.indexOf(array, value), counted from 1; 0 stands for -1.
indexOf(list, x) ==
    IF \E k \in 1..Len(list) : list[k] = x
    THEN CHOOSE k \in 1..Len(list) :
             list[k] = x /\ \A j \in 1..(k - 1) : list[j] # x
    ELSE 0

\* array.splice(index, 1): index -1 removes the last element.
splice1(list, idx) ==
    IF list = <<>> THEN list
    ELSE IF idx = 0 THEN SubSeq(list, 1, Len(list) - 1)
    ELSE SubSeq(list, 1, idx - 1) \o SubSeq(list, idx + 1, Len(list))

\* The animator writes a value to its object, an array in place.
WriteValue(e, topKey, key, v) ==
    IF topKey = ""
    THEN [e EXCEPT !.arr[e[key][1]] = v]
    ELSE [e EXCEPT ![topKey][1][key] = Some(v)]

RECURSIVE WriteFinal(_, _, _)
WriteFinal(e, a, i) ==
    IF i > Len(a.keys) THEN e
    ELSE WriteFinal(WriteValue(e, a.obj, a.keys[i], a.to[i]), a, i + 1)

\* callback && callback(): a function is called, any other truthy value
\* fails as a call.
callback(w) ==
    IF Falsy(w.run.callback) THEN w
    ELSE IF isFunction(w.run.callback) THEN [w EXCEPT !.run.called = @ + 1]
    ELSE [w EXCEPT !.run.failed = TRUE]

\* The closure `done` of animateTo.
done(w) ==
    LET w1 == [w EXCEPT !.run.count = @ - 1]
    IN  IF w1.run.count = 0 THEN callback(w1) ELSE w1

\* The animator's done list runs: first the function addAnimator gave it,
\* which splices the array the element had when the animator was added,
\* then the closure `done` if animateTo registered it.
finish(w, id) ==
    LET counted == w.el.anim[id][1].counted
        w1 == [w EXCEPT !.el.animators = IF w.el.anim[id][1].current
                                         THEN splice1(@, indexOf(@, id))
                                         ELSE @,
                        !.el.anim[id][1].status = "done"]
    IN  IF counted THEN done(w1) ELSE w1

\* Animator#start(easing, forceAnimate): with nothing to animate and
\* forceAnimate unset the animator is done at once.
NeedsAnimate(e, a) ==
    \E i \in 1..Len(a.keys) : SourceValue(e, a.obj, a.keys[i]) # Some(a.to[i])

start(w, id, forceAnimate) ==
    LET a == w.el.anim[id][1]
        w1 == [w EXCEPT !.run.starts[id] = @ + 1]
    IN  IF forceAnimate \/ NeedsAnimate(w.el, a)
        THEN [w1 EXCEPT !.el.anim[id][1].status = "running"]
        ELSE finish([w1 EXCEPT !.run.instant = @ \cup {id}], id)

\* Animator#stop(forwardToLast): a running animator jumps to its final
\* values if asked to; its done list does not run.
stop(e, id, forwardToLast) ==
    LET a == e.anim[id][1]
        e1 == IF forwardToLast /\ a.status = "running" THEN WriteFinal(e, a, 1) ELSE e
    IN  [e1 EXCEPT !.anim[id][1].status = "stopped",
                   !.stopCalls = Append(@, <<id, forwardToLast>>)]

\* The host ticks a running animator to its last frame: the final values
\* are written, the during-function marks the element, the done list runs.
tick(w, id) ==
    LET a == w.el.anim[id][1]
        e1 == updateDuringAnimation(WriteFinal(w.el, a, 1), a.obj)
        w1 == [w EXCEPT !.el = e1,
                        !.run.ticked = IF id \in w.run.made THEN @ \cup {id} ELSE @]
    IN  finish(w1, id)

-----------------------------------------------------------------------------
(* Animation: the element's methods *)

\* addAnimator, but the animator is not handed to the host's animation.
addAnimator_listOnly(w, animator) ==
    LET id == FreeId(w)
    IN  IF id = 0 THEN [w EXCEPT !.run.overflow = TRUE]
        ELSE [w EXCEPT !.el.anim[id] = Some(animator),
                       !.el.animators = Append(@, id),
                       !.run.made = @ \cup {id},
                       !.run.carry = [p \in Paths |->
                           IF \E i \in 1..Len(animator.keys) :
                                  p = PathOf(animator.obj, animator.keys[i])
                           THEN id ELSE @[p]]]

\* addAnimator(animator, key): the animator joins the list, and the host's
\* animation if the element is attached.
addAnimator(w, animator) ==
    LET id == FreeId(w)
    IN  IF id = 0 THEN [w EXCEPT !.run.overflow = TRUE]
        ELSE [w EXCEPT !.el.anim[id] =
                           Some([animator EXCEPT !.registered =
                                    IF w.el.zr # None THEN {w.el.zr[1]} ELSE {}]),
                       !.el.animators = Append(@, id),
                       !.run.made = @ \cup {id},
                       !.run.carry = [p \in Paths |->
                           IF \E i \in 1..Len(animator.keys) :
                                  p = PathOf(animator.obj, animator.keys[i])
                           THEN id ELSE @[p]]]

\* animate(key, loop): an animator on the element or on the object it has
\* under key, with no track yet and not started; none if there is no such
\* object.
animate(w, key, loop) ==
    LET target == IF key = "" THEN Some("")
                  ELSE IF key = "style" THEN w.el.style
                  ELSE None
    IN  IF target = None
        THEN w    \* logError: Property is not existed in element
        ELSE addAnimator(w, [NewAnimator(key, <<>>, <<>>, Undefined, Undefined)
                                EXCEPT !.loop = loop])

RECURSIVE stopFrom(_, _, _)
stopFrom(e, i, forwardToLast) ==
    IF i > Len(e.animators) THEN e
    ELSE stopFrom(stop(e, e.animators[i], forwardToLast), i + 1, forwardToLast)

\* stopAnimation, but the list is kept.
stopAnimation_keepList(e, forwardToLast) ==
    stopFrom(e, 1, forwardToLast)

\* this.animators = []: the element gets a new array, the done functions
\* of the animators made so far hold the old one.
newList(e) ==
    [e EXCEPT !.animators = <<>>,
              !.anim = [i \in 1..MaxAnimators |->
                           IF @[i] = None THEN None
                           ELSE Some([@[i][1] EXCEPT !.current = FALSE])]]

\* stopAnimation, but no animator is stopped.
stopAnimation_listOnly(e, forwardToLast) ==
    Sweep(newList(e))

stopAnimation(e, forwardToLast) ==
    Sweep(newList(stopFrom(e, 1, forwardToLast)))

\* source[innerKey] = target[innerKey]: an array or object by reference.
assign(e, topKey, t) ==
    IF topKey = ""
    THEN (IF t.key \in VectorKeys
          THEN [e EXCEPT ![t.key] = Some(DescAddr(t.key)), !.arr[DescAddr(t.key)] = t.v]
          ELSE [e EXCEPT ![t.key] = Some(StyleOf(t.sub))])
    ELSE [e EXCEPT ![topKey][1][t.key] =
                       IF t.kind = "obj" THEN Some(NestedObject) ELSE Some(t.v)]

\* The reverse loop: source[innerKey] = target[innerKey] for each
\* animatable key (keys holds their positions in target).
RECURSIVE assignKeys(_, _, _, _, _)
assignKeys(e, topKey, target, keys, i) ==
    IF i > Len(keys) THEN e
    ELSE assignKeys(assign(e, topKey, target[keys[i]]), topKey, target, keys, i + 1)

\* animateKeys, but the animator always runs to the descriptor's values.
animateKeys_toGiven(w, topKey, target, time, delay, reverse, keys) ==
    IF Len(keys) = 0 THEN w
    ELSE
        LET names == [i \in 1..Len(keys) |-> target[keys[i]].key]
            live == [i \in 1..Len(keys) |-> SourceValue(w.el, topKey, names[i])[1]]
            given == [i \in 1..Len(keys) |-> target[keys[i]].v]
            e1 == IF reverse THEN assignKeys(w.el, topKey, target, keys, 1) ELSE w.el
            w1 == [w EXCEPT !.el = e1,
                            !.run.pre = [p \in Paths |->
                                IF \E i \in 1..Len(keys) : p = PathOf(topKey, names[i])
                                THEN Some(live[CHOOSE i \in 1..Len(keys) :
                                                   p = PathOf(topKey, names[i])])
                                ELSE @[p]],
                            !.run.want = [p \in Paths |->
                                IF \E i \in 1..Len(keys) : p = PathOf(topKey, names[i])
                                THEN Some(given[CHOOSE i \in 1..Len(keys) :
                                                    p = PathOf(topKey, names[i])])
                                ELSE @[p]]]
        IN  addAnimator(w1, NewAnimator(topKey, names, given, time, delay))

\* The part of animateToShallow after the loop over the keys.
animateKeys(w, topKey, target, time, delay, reverse, keys) ==
    IF Len(keys) = 0 THEN w
    ELSE
        LET names == [i \in 1..Len(keys) |-> target[keys[i]].key]
            live == [i \in 1..Len(keys) |-> SourceValue(w.el, topKey, names[i])[1]]
            given == [i \in 1..Len(keys) |-> target[keys[i]].v]
            reversedTarget == live
            e1 == IF reverse THEN assignKeys(w.el, topKey, target, keys, 1) ELSE w.el
            animator == NewAnimator(topKey, names,
                                    IF reverse THEN reversedTarget ELSE given,
                                    time, delay)
            w1 == [w EXCEPT !.el = e1,
                            !.run.pre = [p \in Paths |->
                                IF \E i \in 1..Len(keys) : p = PathOf(topKey, names[i])
                                THEN Some(live[CHOOSE i \in 1..Len(keys) :
                                                   p = PathOf(topKey, names[i])])
                                ELSE @[p]],
                            !.run.want = [p \in Paths |->
                                IF \E i \in 1..Len(keys) : p = PathOf(topKey, names[i])
                                THEN Some(given[CHOOSE i \in 1..Len(keys) :
                                                    p = PathOf(topKey, names[i])])
                                ELSE @[p]]]
        IN  addAnimator(w1, animator)

RECURSIVE animateToShallow(_, _, _, _, _, _)
RECURSIVE targetKeys(_, _, _, _, _, _, _, _)

\* targetKeys, but an absent key is assigned on animateFrom as well.
targetKeys_assignAlways(w, topKey, target, time, delay, reverse, k, keys) ==
    IF k > Len(target)
    THEN animateKeys(w, topKey, target, time, delay, reverse, keys)
    ELSE
        LET t == target[k]
        IN  IF SourceValue(w.el, topKey, t.key) # None
            THEN IF t.kind = "obj"
                 THEN IF topKey # ""
                      THEN [w EXCEPT !.run.thrown = TRUE]
                      ELSE LET w1 == animateToShallow(w, t.key, t.sub, time, delay, reverse)
                           IN  IF w1.run.thrown THEN w1
                               ELSE targetKeys(w1, topKey, target, time, delay, reverse,
                                               k + 1, keys)
                 ELSE targetKeys(w, topKey, target, time, delay, reverse,
                                 k + 1, Append(keys, k))
            ELSE targetKeys([w EXCEPT !.el = assign(w.el, topKey, t)],
                            topKey, target, time, delay, reverse, k + 1, keys)

\* The loop of animateToShallow over the keys of target, from key k on;
\* keys collects animatableKeys.  A throw leaves everything after it undone.
targetKeys(w, topKey, target, time, delay, reverse, k, keys) ==
    IF k > Len(target) THEN animateKeys(w, topKey, target, time, delay, reverse, keys)
    ELSE
        LET t == target[k]
        IN  IF SourceValue(w.el, topKey, t.key) # None
            THEN IF t.kind = "obj"
                 THEN IF topKey # ""
                      THEN [w EXCEPT !.run.thrown = TRUE]
                      ELSE LET w1 == animateToShallow(w, t.key, t.sub, time, delay, reverse)
                           IN  IF w1.run.thrown THEN w1
                               ELSE targetKeys(w1, topKey, target, time, delay, reverse, k + 1, keys)
                 ELSE targetKeys(w, topKey, target, time, delay, reverse, k + 1, Append(keys, k))
            ELSE IF ~reverse
                 THEN targetKeys([w EXCEPT !.el = assign(w.el, topKey, t)],
                                 topKey, target, time, delay, reverse, k + 1, keys)
                 ELSE targetKeys(w, topKey, target, time, delay, reverse, k + 1, keys)

animateToShallow(w, topKey, target, time, delay, reverse) ==
    targetKeys(w, topKey, target, time, delay, reverse, 1, <<>>)

\* The loop of animateTo over the live list of animators.
RECURSIVE startAll(_, _, _)

\* startAll, but forceAnimate is not handed to start().
startAll_unforced(w, i, forceAnimate) ==
    IF i > Len(w.el.animators) THEN w
    ELSE LET id == w.el.animators[i]
             w1 == [w EXCEPT !.el.anim[id][1].counted = TRUE]
             w2 == start(w1, id, FALSE)
         IN  IF w2.run.failed THEN w2
             ELSE startAll(w2, i + 1, forceAnimate)

startAll(w, i, forceAnimate) ==
    IF i > Len(w.el.animators) THEN w
    ELSE LET id == w.el.animators[i]
             w1 == [w EXCEPT !.el.anim[id][1].counted = TRUE]
             w2 == start(w1, id, forceAnimate)
         IN  IF w2.run.failed THEN w2    \* the error leaves the loop
             ELSE startAll(w2, i + 1, forceAnimate)

\* The head of function animateTo: the trailing arguments are told apart by
\* their types.
normalizeArgs(time, delay, easing, cb) ==
    IF isString(delay)
    THEN [time |-> time, delay |-> Num(0), easing |-> delay, callback |-> easing]
    ELSE IF isFunction(easing)
    THEN [time |-> time, delay |-> Num(0), easing |-> Str("linear"), callback |-> easing]
    ELSE IF isFunction(delay)
    THEN [time |-> time, delay |-> Num(0), easing |-> easing, callback |-> delay]
    ELSE IF isFunction(time)
    THEN [time |-> Num(500), delay |-> delay, easing |-> easing, callback |-> time]
    ELSE IF Falsy(time)
    THEN [time |-> Num(500), delay |-> delay, easing |-> easing, callback |-> cb]
    ELSE [time |-> time, delay |-> delay, easing |-> easing, callback |-> cb]

\* function animateTo(animatable, target, time, delay, easing, callback,
\* forceAnimate, reverse)
animateTo(e, target, time0, delay0, easing0, callback0, forceAnimate, reverse) ==
    LET args == normalizeArgs(time0, delay0, easing0, callback0)
        time == args.time
        delay == args.delay
        w0 == [el |-> [stopAnimation(e, FALSE) EXCEPT
                          !.absent = [p \in KeyPaths |->
                              IF LiveAt(e, p) = None THEN GivenAt(target, p) ELSE None]],
               run |-> [NoRun EXCEPT !.force = forceAnimate, !.reverse = reverse,
                                     !.args = <<time0, delay0, easing0, callback0>>,
                                     !.callback = args.callback,
                                     !.equal = EqualTarget(e, "", target),
                                     !.deep = DeepTarget(target)]]
        w1 == animateToShallow(w0, "", target, time, delay, reverse)
        w2 == [w1 EXCEPT !.run.count = Len(w1.el.animators)]
        w3 == IF w2.run.count = 0 THEN callback(w2) ELSE w2
        w4 == IF w3.run.failed THEN w3 ELSE startAll(w3, 1, forceAnimate)
        w5 == IF w1.run.thrown THEN w1 ELSE w4
    IN  [w5 EXCEPT !.el = Sweep(@), !.run.sync = (w5.run.called > 0)]

addSelfToZr(e, zr) ==
    [e EXCEPT !.zr = Some(zr),
              !.anim = [i \in 1..MaxAnimators |->
                           IF \E k \in 1..Len(e.animators) : e.animators[k] = i
                           THEN Some([@[i][1] EXCEPT !.registered = @ \cup {zr}])
                           ELSE @[i]]]

removeSelfFromZr(e, zr) ==
    Sweep([e EXCEPT !.zr = None,
              !.anim = [i \in 1..MaxAnimators |->
                           IF \E k \in 1..Len(e.animators) : e.animators[k] = i
                           THEN Some([@[i][1] EXCEPT !.registered = @ \ {zr}])
                           ELSE @[i]]])

-----------------------------------------------------------------------------
(* Operations on the element *)

Called(op, name, keep) == [op |-> op, name |-> name, keep |-> keep]

Other == Called("other", "", FALSE)

\* An operation returns the element e; call is what was called.
Step(e, call) ==
    /\ Len(e.currentStates) <= MaxStack
    /\ el' = e
    /\ last' = call
    /\ repeat' = (call = last /\ call # Other)
    /\ run' = run
    /\ nodes' = nodes

UseState(stateName, keepCurrentStates) ==
    Step(useState(Begin(el), stateName, keepCurrentStates),
         Called("useState", stateName, keepCurrentStates))

UseStates(states) ==
    Step([useStates(Begin(el), states) EXCEPT !.listGiven = Some(states)], Other)

ClearStates ==
    Step(clearStates(Begin(el)), Other)

EnsureState(name) ==
    Step(ensureState(Begin(el), name), Other)

\* The painter consumes the dirty flag.
PainterClear ==
    /\ el.dirty
    /\ Step([Begin(el) EXCEPT !.dirty = FALSE], Other)

NameLists == UNION {[1..n -> ListNames] : n \in 1..MaxList}

Init ==
    /\ \E ks \in [UserStates -> DefinedKeySets], orig \in BOOLEAN, label \in BOOLEAN :
           el = NewElement(ks, orig, label)
    /\ last = Other
    /\ repeat = FALSE
    /\ run = NoRun
    /\ nodes = NewNodes

Next ==
    \/ \E n \in CallNames, k \in BOOLEAN : UseState(n, k)
    \/ \E l \in NameLists : UseStates(l)
    \/ ClearStates
    \/ \E n \in EnsureNames : EnsureState(n)
    \/ PainterClear

Spec == Init /\ [][Next]_vars

-----------------------------------------------------------------------------
(* Animation: operations *)

\* An animation operation returns the element and the call's record.
AnimStep(w, call) ==
    /\ ~w.run.overflow
    /\ el' = w.el
    /\ run' = w.run
    /\ last' = call
    /\ repeat' = FALSE
    /\ nodes' = nodes

AnimateTo(target, forceAnimate) ==
    AnimStep(animateTo(Begin(el), target, Num(500), Num(0), Str("linear"), Fn("cb"),
                       forceAnimate, FALSE),
             Called("animateTo", "", forceAnimate))

AnimateFrom(target, forceAnimate) ==
    AnimStep(animateTo(Begin(el), target, Num(500), Num(0), Str("linear"), Fn("cb"),
                       forceAnimate, TRUE),
             Called("animateFrom", "", forceAnimate))

StopAnimation(forwardToLast) ==
    AnimStep([el |-> stopAnimation(Begin(el), forwardToLast),
              run |-> [run EXCEPT !.cancelled = @ \/ el.animators # <<>>]],
             Called("stopAnimation", "", forwardToLast))

\* The host's animation ticks one of the animators it holds.
Tick(id) ==
    /\ el.anim[id] # None
    /\ el.anim[id][1].status = "running"
    /\ el.anim[id][1].registered # {}
    /\ LET w == tick([el |-> Begin(el), run |-> run], id)
       IN  AnimStep([w EXCEPT !.el = Sweep(@)], Other)

\* The keys handed to animate: none, one that names an object and one that
\* names nothing.
AnimateKeys == {"", "style", "shape"}

\* el.animate(key, loop); run stays the record of the latest animateTo call.
Animate(key, loop) ==
    LET w == animate([el |-> Begin(el), run |-> run], key, loop)
    IN  AnimStep([w EXCEPT !.run = [run EXCEPT !.overflow = w.run.overflow]],
                 Called("animate", key, loop))

AddSelfToZr ==
    /\ el.zr = None
    /\ AnimStep([el |-> addSelfToZr(Begin(el), "zr"), run |-> run],
                Called("addSelfToZr", "zr", FALSE))

RemoveSelfFromZr ==
    /\ el.zr # None
    /\ AnimStep([el |-> removeSelfFromZr(Begin(el), "zr"), run |-> run],
                Called("removeSelfFromZr", "zr", FALSE))

\* An instance of a subclass with a style, no state defined.
InitAnim ==
    /\ \E orig \in BOOLEAN, style \in Styles :
           el = [NewElement([s \in UserStates |-> {}], orig, FALSE)
                     EXCEPT !.style = style]
    /\ last = Other
    /\ repeat = FALSE
    /\ run = NoRun
    /\ nodes = NewNodes

\* animateFrom is explored with forceAnimate unset, animate with loop unset.
NextAnim ==
    \/ \E t \in Targets, f \in BOOLEAN : AnimateTo(t, f)
    \/ \E t \in Targets : AnimateFrom(t, FALSE)
    \/ \E f \in BOOLEAN : StopAnimation(f)
    \/ \E id \in 1..MaxAnimators : Tick(id)
    \/ \E key \in AnimateKeys : Animate(key, FALSE)
    \/ AddSelfToZr
    \/ RemoveSelfFromZr

SpecAnim == InitAnim /\ [][NextAnim]_vars

-----------------------------------------------------------------------------
(* Clip paths *)

\* markRedraw of the element n
nodeMarkRedraw(ns, n) == [ns EXCEPT ![n].dirty = TRUE]

\* n.addSelfToZr(zr): n and its animators, then its clip path, then its label
RECURSIVE addSelfToZrAt(_, _, _)
addSelfToZrAt(ns, n, zr) ==
    LET ns1 == [ns EXCEPT ![n].zr = Some(zr), ![n].reg = @ \cup {zr}]
        ns2 == IF ns1[n].clipPath # None
               THEN addSelfToZrAt(ns1, ns1[n].clipPath[1], zr)
               ELSE ns1
    IN  IF ns2[n].textContent # None
        THEN addSelfToZrAt(ns2, ns2[n].textContent[1], zr)
        ELSE ns2

\* n.removeSelfFromZr(zr): n and its animators, then its clip path, then its
\* label
RECURSIVE removeSelfFromZrAt(_, _, _)
removeSelfFromZrAt(ns, n, zr) ==
    LET ns1 == [ns EXCEPT ![n].zr = None, ![n].reg = @ \ {zr}]
        ns2 == IF ns1[n].clipPath # None
               THEN removeSelfFromZrAt(ns1, ns1[n].clipPath[1], zr)
               ELSE ns1
    IN  IF ns2[n].textContent # None
        THEN removeSelfFromZrAt(ns2, ns2[n].textContent[1], zr)
        ELSE ns2

\* n.removeClipPath()
removeClipPath(ns, n) ==
    IF ns[n].clipPath = None THEN ns
    ELSE LET c == ns[n].clipPath[1]
             ns1 == IF ns[c].zr # None THEN removeSelfFromZrAt(ns, c, ns[c].zr[1]) ELSE ns
         IN  nodeMarkRedraw([ns1 EXCEPT ![c].zr = None,
                                        ![c].clipTarget = None,
                                        ![n].clipPath = None], n)

\* n.setClipPath(c)
setClipPath(ns, n, c) ==
    LET zr == ns[n].zr
        ns1 == IF zr # None THEN addSelfToZrAt(ns, c, zr[1]) ELSE ns
        ns2 == IF ns1[n].clipPath # None /\ ns1[n].clipPath # Some(c)
               THEN removeClipPath(ns1, n) ELSE ns1
    IN  nodeMarkRedraw([ns2 EXCEPT ![n].clipPath = Some(c),
                                   ![c].zr = zr,
                                   ![c].clipTarget = Some(n)], n)

ClipStep(ns) ==
    /\ nodes' = ns
    /\ UNCHANGED <<el, last, repeat, run>>

SetClipPath(n, c) == ClipStep(setClipPath(nodes, n, c))

RemoveClipPath(n) == ClipStep(removeClipPath(nodes, n))

NodeAddSelfToZr(n, zr) == ClipStep(addSelfToZrAt(nodes, n, zr))

NodeRemoveSelfFromZr(n, zr) == ClipStep(removeSelfFromZrAt(nodes, n, zr))

InitClip ==
    /\ el = NewElement([s \in UserStates |-> {}], FALSE, FALSE)
    /\ last = Other
    /\ repeat = FALSE
    /\ run = NoRun
    /\ nodes = NewNodes

NextClip ==
    \/ \E n \in Owners, c \in Clips : SetClipPath(n, c)
    \/ \E n \in Owners : RemoveClipPath(n)
    \/ \E n \in Owners, zr \in Hosts : NodeAddSelfToZr(n, zr)
    \/ \E n \in Owners, zr \in Hosts : NodeRemoveSelfFromZr(n, zr)

SpecClip == InitClip /\ [][NextClip]_vars

-----------------------------------------------------------------------------
(* The label of an element in a host *)

\* n.removeTextContent()
removeTextContentAt(ns, n) ==
    IF ns[n].textContent = None THEN ns
    ELSE LET textEl == ns[n].textContent[1]
             ns1 == IF ns[textEl].zr # None
                    THEN removeSelfFromZrAt(ns, textEl, ns[textEl].zr[1])
                    ELSE ns
         IN  nodeMarkRedraw([ns1 EXCEPT ![textEl].zr = None,
                                        ![n].textContent = None], n)

\* setTextContent, but a label the element already has is left as it is.
setTextContentAt_keepOld(ns, n, textEl) ==
    LET zr == ns[n].zr
        ns2 == IF zr # None THEN addSelfToZrAt(ns, textEl, zr[1]) ELSE ns
    IN  nodeMarkRedraw([ns2 EXCEPT ![n].textContent = Some(textEl),
                                   ![textEl].zr = zr], n)

\* n.setTextContent(textEl)
setTextContentAt(ns, n, textEl) ==
    LET ns1 == IF ns[n].textContent # None /\ ns[n].textContent # Some(textEl)
               THEN removeTextContentAt(ns, n) ELSE ns
        zr == ns1[n].zr
        ns2 == IF zr # None THEN addSelfToZrAt(ns1, textEl, zr[1]) ELSE ns1
    IN  nodeMarkRedraw([ns2 EXCEPT ![n].textContent = Some(textEl),
                                   ![textEl].zr = zr], n)

\* The element that has the label.
Host == "n1"

TextStep(ns, call) ==
    /\ nodes' = ns
    /\ last' = call
    /\ UNCHANGED <<el, repeat, run>>

\* `keep` of the call recorded says whether the element had another label.
NodeSetTextContent(textEl) ==
    TextStep(setTextContentAt(nodes, Host, textEl),
             Called("setTextContent", textEl,
                    nodes[Host].textContent \notin {None, Some(textEl)}))

NodeRemoveTextContent ==
    TextStep(removeTextContentAt(nodes, Host), Called("removeTextContent", "", FALSE))

HostAddSelfToZr(zr) ==
    TextStep(addSelfToZrAt(nodes, Host, zr), Called("addSelfToZr", zr, FALSE))

HostRemoveSelfFromZr(zr) ==
    TextStep(removeSelfFromZrAt(nodes, Host, zr), Called("removeSelfFromZr", zr, FALSE))

InitText ==
    /\ el = NewElement([s \in UserStates |-> {}], FALSE, FALSE)
    /\ last = Other
    /\ repeat = FALSE
    /\ run = NoRun
    /\ nodes = NewNodes

NextText ==
    \/ \E textEl \in Labels : NodeSetTextContent(textEl)
    \/ NodeRemoveTextContent
    \/ \E zr \in Hosts : HostAddSelfToZr(zr)
    \/ \E zr \in Hosts : HostRemoveSelfFromZr(zr)

SpecText == InitText /\ [][NextText]_vars

-----------------------------------------------------------------------------
(* Dragging *)

\* The movements a drag hands to drift, per axis.
Deltas == {-1, 0, 2}

\* Transformable#decomposeTransform for a matrix without rotation or skew
\* and with positive scale: position, scale and rotation are read off the
\* matrix, the arrays written in place.
decomposeTransform(e) ==
    LET m == e.transform[1]
    IN  [e EXCEPT !.arr[e.position[1]] = <<m[5], m[6]>>,
                  !.arr[e.scale[1]] = <<m[1], m[4]>>,
                  !.rotation = Some(0)]

\* drift, but without the switch on draggable.
drift_unlocked(e, dx, dy) ==
    LET m == IF e.transform = None THEN <<1, 0, 0, 1, 0, 0>> ELSE e.transform[1]
        m1 == [m EXCEPT ![5] = @ + dx, ![6] = @ + dy]
    IN  markRedraw(decomposeTransform([e EXCEPT !.transform = Some(m1)]))

\* drift(dx, dy); the matrix [m0, ..., m5] is the sequence <<m[1], ..., m[6]>>.
drift(e, dx, dy) ==
    LET dx1 == IF e.draggable = "vertical" THEN 0 ELSE dx
        dy1 == IF e.draggable = "horizontal" THEN 0 ELSE dy
        m == IF e.transform = None THEN <<1, 0, 0, 1, 0, 0>> ELSE e.transform[1]
        m1 == [m EXCEPT ![5] = @ + dx1, ![6] = @ + dy1]
    IN  markRedraw(decomposeTransform([e EXCEPT !.transform = Some(m1)]))

\* The translation stays within MaxShift of the origin.
InReach(e) ==
    e.transform # None =>
        /\ e.transform[1][5] \in -MaxShift..MaxShift
        /\ e.transform[1][6] \in -MaxShift..MaxShift

Drift(dx, dy) ==
    LET e == drift([Begin(el) EXCEPT !.driftBy = Some(<<dx, dy>>)], dx, dy)
    IN  /\ InReach(e)
        /\ el' = e
        /\ last' = Called("drift", "", FALSE)
        /\ UNCHANGED <<repeat, run, nodes>>

\* An element with or without a matrix (one that scales by 2 and 3), and
\* with each setting of draggable.
InitDrift ==
    /\ \E d \in {"true", "horizontal", "vertical"},
          t \in {None, Some(<<2, 0, 0, 3, 0, 0>>)} :
           el = [NewElement([s \in UserStates |-> {}], FALSE, FALSE)
                     EXCEPT !.draggable = d, !.transform = t]
    /\ last = Other
    /\ repeat = FALSE
    /\ run = NoRun
    /\ nodes = NewNodes

NextDrift == \E dx \in Deltas, dy \in Deltas : Drift(dx, dy)

SpecDrift == InitDrift /\ [][NextDrift]_vars

-----------------------------------------------------------------------------
(* Animation: the trailing arguments *)

\* The values handed in each position, by the types the signature allows.
Times == {Undefined, Num(100), Num(200), Fn("f1")}
Delays == {Undefined, Num(0), Num(50), Str("cubicOut"), Fn("f2")}
Easings == {Undefined, Str("cubicIn"), Fn("f3")}
Callbacks == {Undefined, Fn("f4")}

\* The descriptors handed with them: one that animates the origin and the
\* empty one, which makes no animator.
ArgTargets == { <<Leaf("origin", <<9, 9>>)>>, <<>> }

\* animateTo(target, time, delay, easing, callback)
AnimateWith(target, time, delay, easing, cb) ==
    AnimStep(animateTo(Begin(el), target, time, delay, easing, cb, FALSE, FALSE),
             Called("animateTo", "", FALSE))

\* An element with an origin.
InitArgs ==
    /\ el = NewElement([s \in UserStates |-> {}], TRUE, FALSE)
    /\ last = Other
    /\ repeat = FALSE
    /\ run = NoRun
    /\ nodes = NewNodes

NextArgs ==
    \E target \in ArgTargets, time \in Times, delay \in Delays, easing \in Easings,
       cb \in Callbacks :
        AnimateWith(target, time, delay, easing, cb)

SpecArgs == InitArgs /\ [][NextArgs]_vars

-----------------------------------------------------------------------------
(* The attached label *)

\* The configurations handed to setTextConfig: a key is absent (Unset), null
\* or given; a position is a keyword.
TextConfigs ==
    [position : {Unset, "inside", "insideLeft", "top"},
     insideFill : {Unset, Null, "auto", "red"},
     insideStroke : {Unset, Null, "auto"}]

\* typeof position === 'string' && position.indexOf('inside') >= 0, over the
\* keywords of TextConfigs.
isInside(position) == position \in {"inside", "insideLeft"}

\* value != null
NotNull(v) == v # Unset /\ v # Null

getInsideTextFill == "#fff"

getInsideTextStroke(textFill) == "#000"

\* RichText#setDefaultTextColor: the label keeps what it is given.
setDefaultTextColor(e, textEl, color) == [e EXCEPT !.labelColor[textEl] = color]

\* The default text colour a label has: the contents of the object it
\* refers to.
DefaultTextColor(e, textEl) ==
    IF e.labelColor[textEl] = None THEN None ELSE e.insideTextColor

\* Transformable#updateTransform on an element without a parent whose
\* position, scale and rotation are the constructor's: there is no local
\* transform, the matrix is left as it is.
updateTransform(e) == e

\* _updateInnerText, colour part.  The label's layout (position, rotation,
\* origin, alignment) is the label's own state and is not part of the model.
\* It ends in textEl.markRedraw(): the label, which is in the host the
\* element is in, refreshes that host.
updateInnerText(e) ==
    IF e.textContent = None THEN e
    ELSE LET textEl == e.textContent[1]
             e1 == IF e.textConfig = None
                   THEN [e EXCEPT !.textConfig = Some("t1"),
                                  !.cfg["t1"] = Some(EmptyConfig)]
                   ELSE e
             textConfig == e1.cfg[e1.textConfig[1]][1]
             hasInsideFill == NotNull(textConfig.insideFill)
             hasInsideStroke == NotNull(textConfig.insideStroke)
             fillColor == IF textConfig.insideFill = "auto"
                          THEN getInsideTextFill ELSE textConfig.insideFill
             strokeColor == IF textConfig.insideStroke = "auto"
                            THEN getInsideTextStroke(fillColor)
                            ELSE textConfig.insideStroke
             e2 == IF hasInsideFill \/ hasInsideStroke
                   THEN IF isInside(textConfig.position)
                        THEN setDefaultTextColor(
                                 [e1 EXCEPT !.insideTextColor =
                                     Some([fill |-> fillColor,
                                           stroke |-> IF NotNull(strokeColor)
                                                      THEN strokeColor ELSE Null,
                                           lineWidth |-> IF NotNull(strokeColor)
                                                         THEN 2 ELSE 0])],
                                 textEl, Some("insideTextColor"))
                        ELSE e1
                   ELSE setDefaultTextColor(e1, textEl, None)
         IN  [e2 EXCEPT !.labelMarked = TRUE,
                        !.refreshed = (@ \/ e2.zr # None)]

update(e) == updateInnerText(updateTransform(e))

\* removeTextContent; the label's own host reference is the subject of
\* removeTextContentAt.
removeTextContent(e) ==
    IF e.textContent # None
    THEN markRedraw([e EXCEPT !.textContent = None])
    ELSE e

\* setTextContent(textEl); the label's own host reference is the subject of
\* setTextContentAt.
setTextContent(e, textEl) ==
    LET e1 == IF e.textContent # None /\ e.textContent # Some(textEl)
              THEN removeTextContent(e) ELSE e
    IN  markRedraw([e1 EXCEPT !.textContent = Some(textEl)])

\* setTextConfig(cfg)
setTextConfig(e, cfg) ==
    LET e1 == IF e.textConfig = None
              THEN [e EXCEPT !.textConfig = Some("t1"), !.cfg["t1"] = Some(EmptyConfig)]
              ELSE e
    IN  markRedraw([e1 EXCEPT !.cfg[e1.textConfig[1]] = Some(Extend(@[1], cfg))])

LabelStep(e, call) ==
    /\ el' = e
    /\ last' = call
    /\ repeat' = FALSE
    /\ run' = run
    /\ nodes' = nodes

Update == LabelStep(update(Begin(el)), Called("update", "", FALSE))

SetTextContent(textEl) ==
    LabelStep(setTextContent(Begin(el), textEl), Called("setTextContent", textEl, FALSE))

RemoveTextContent ==
    LabelStep(removeTextContent(Begin(el)), Called("removeTextContent", "", FALSE))

SetTextConfig(cfg) ==
    LabelStep(setTextConfig(Begin(el), cfg), Called("setTextConfig", "", FALSE))

\* An element, in no host yet, with or without a label attached at
\* construction.
InitLabel ==
    /\ \E label \in BOOLEAN :
           el = NewElement([s \in UserStates |-> {}], FALSE, label)
    /\ last = Other
    /\ repeat = FALSE
    /\ run = NoRun
    /\ nodes = NewNodes

NextLabel ==
    \/ Update
    \/ \E textEl \in Labels : SetTextContent(textEl)
    \/ RemoveTextContent
    \/ \E cfg \in TextConfigs : SetTextConfig(cfg)
    \/ AddSelfToZr
    \/ RemoveSelfFromZr

SpecLabel == InitLabel /\ [][NextLabel]_vars

-----------------------------------------------------------------------------
(* Attributes and visibility *)

\* attrKV(key, value) for the keys of the primary properties: a vector is
\* copied into the array the element holds ("oa" is the array made when it
\* holds none), any other value is assigned.
attrKV(e, key, value) ==
    IF key \in VectorKeys
    THEN IF value = None THEN e
         ELSE LET e1 == IF e[key] = None THEN [e EXCEPT ![key] = Some("oa")] ELSE e
              IN  [e1 EXCEPT !.arr[e1[key][1]] = value[1]]
    ELSE [e EXCEPT ![key] = value]

\* attr(key, value)
attr(e, key, value) == markRedraw(attrKV(e, key, value))

\* hide() and show(): the host is told to refresh, markRedraw is not called.
hide(e) == [e EXCEPT !.ignore = Some(TRUE), !.refreshed = (@ \/ e.zr # None)]

show(e) == [e EXCEPT !.ignore = Some(FALSE), !.refreshed = (@ \/ e.zr # None)]

\* The values handed to attr, by key.
AttrValues(key) ==
    IF key \in VectorKeys THEN {Some(<<8, 8>>)}
    ELSE IF key = "rotation" THEN {Some(9)}
    ELSE {Some(TRUE)}

AttrStep(e, call) ==
    /\ el' = e
    /\ last' = call
    /\ repeat' = FALSE
    /\ run' = run
    /\ nodes' = nodes

Attr(key, value) == AttrStep(attr(Begin(el), key, value), Called("attr", key, FALSE))

Hide == AttrStep(hide(Begin(el)), Called("hide", "", FALSE))

Show == AttrStep(show(Begin(el)), Called("show", "", FALSE))

MarkRedraw == AttrStep(markRedraw(Begin(el)), Called("markRedraw", "", FALSE))

Dirty == AttrStep(dirty(Begin(el)), Called("dirty", "", FALSE))

UpdateDuringAnimation(key) ==
    AttrStep(updateDuringAnimation(Begin(el), key),
             Called("updateDuringAnimation", key, FALSE))

ToHost ==
    /\ el.zr = None
    /\ AttrStep(addSelfToZr(Begin(el), "zr"), Called("addSelfToZr", "zr", FALSE))

FromHost ==
    /\ el.zr # None
    /\ AttrStep(removeSelfFromZr(Begin(el), "zr"), Called("removeSelfFromZr", "zr", FALSE))

\* The configurations handed to setTextConfig here.
FewConfigs == {[EmptyConfig EXCEPT !.position = "top"]}

\* An element with or without an origin; state "a" defines position,
\* rotation and textConfig, state "b" scale, origin and ignore.
InitAttr ==
    /\ \E orig \in BOOLEAN :
           el = NewElement([s \in UserStates |->
                               IF s = "a" THEN {"position", "rotation", "textConfig"}
                               ELSE {"scale", "origin", "ignore"}], orig, FALSE)
    /\ last = Other
    /\ repeat = FALSE
    /\ run = NoRun
    /\ nodes = NewNodes

NextAttr ==
    \/ \E key \in VectorKeys : \E value \in AttrValues(key) : Attr(key, value)
    \/ \E n \in CallNames, k \in BOOLEAN : UseState(n, k)

SpecAttr == InitAttr /\ [][NextAttr]_vars

\* A draggable element whose states define no key.
InitDirty ==
    /\ el = [NewElement([s \in UserStates |-> {}], FALSE, FALSE)
                 EXCEPT !.draggable = "true"]
    /\ last = Other
    /\ repeat = FALSE
    /\ run = NoRun
    /\ nodes = NewNodes

NextDirty ==
    \/ \E value \in AttrValues("rotation") : Attr("rotation", value)
    \/ Hide
    \/ Show
    \/ \E n \in {"a", "c", PRESERVED_NORMAL_STATE}, k \in BOOLEAN : UseState(n, k)
    \/ \E cfg \in FewConfigs : SetTextConfig(cfg)
    \/ SetTextContent("label")
    \/ RemoveTextContent
    \/ Drift(2, 0)
    \/ MarkRedraw
    \/ Dirty
    \/ UpdateDuringAnimation("style")
    \/ ClearStates
    \/ PainterClear
    \/ ToHost
    \/ FromHost

SpecDirty == InitDirty /\ [][NextDirty]_vars

-----------------------------------------------------------------------------
(* The state overlay engine: properties *)

PrimaryKeys == {PRIMARY_STATES_KEYS[i] : i \in 1..Len(PRIMARY_STATES_KEYS)}

\* The last operation was useState(PRESERVED_NORMAL_STATE, _).
CalledNormal == last.op = "useState" /\ last.name = PRESERVED_NORMAL_STATE

\* C1: after useState of the reserved normal name, which follows a sequence
\* of useState calls with non-normal names, every primary property reads as
\* it did immediately before the first non-normal switch, an unset origin
\* included.
C1_RoundTrip ==
    (CalledNormal /\ el.pre # None) => ReadPrimary(el) = el.pre[1]

\* The value the states in currentStates give to key: that of the latest
\* state that defines it, else the normal baseline's.
RECURSIVE LayeredValue(_, _, _)
LayeredValue(e, key, i) ==
    IF i = 0
    THEN Read([e EXCEPT ![key] = e.normalState[1][key]], key)
    ELSE LET state == e.states[e.currentStates[i]][1]
         IN  IF state[key] # None
             THEN Read([e EXCEPT ![key] = state[key]], key)
             ELSE LayeredValue(e, key, i - 1)

\* C2: after a successful useState call, each primary property reads as the
\* latest state in currentStates that defines it gives it, and as the normal
\* baseline where none does.
C2_LayeredPrecedence ==
    (/\ last.op = "useState"
     /\ (last.name = PRESERVED_NORMAL_STATE \/ el.states[last.name] # None)
     /\ el.normalState # None)
        => \A key \in PrimaryKeys :
              Read(el, key) = LayeredValue(el, key, Len(el.currentStates))

\* C3: a useState call that names a non-normal state with no entry in the
\* states map changes neither currentStates nor a primary property nor
\* textConfig nor the dirty flag, and the label receives no useState call.
C3_MissingStateNoMutation ==
    [][(/\ last'.op = "useState"
        /\ last'.name # PRESERVED_NORMAL_STATE
        /\ el.states[last'.name] = None)
          => (/\ el'.currentStates = el.currentStates
              /\ ReadPrimary(el') = ReadPrimary(el)
              /\ \A key \in PrimaryKeys : el'[key] = el[key]
              /\ ReadConfig(el') = ReadConfig(el)
              /\ el'.textConfig = el.textConfig
              /\ el'.dirty = el.dirty
              /\ ~el'.marked
              /\ el'.writes = {}
              /\ el'.labelCalls = <<>>)]_vars

\* A missing state was asked for, layered, on an element that has a label,
\* two active states and a dirty flag the painter had cleared.
C3_Witness ==
    /\ last = Called("useState", "c", TRUE)
    /\ Len(el.currentStates) = 2
    /\ el.textContent # None
    /\ ~el.dirty

\* C4: a useState call with the arguments of the useState call just before
\* it leaves currentStates as they are, writes no property, marks nothing
\* dirty and does not call the label.
C4_RepeatedUseStateNoOp ==
    [][(last'.op = "useState" /\ repeat')
          => (/\ el'.currentStates = el.currentStates
              /\ el'.writes = {}
              /\ ReadPrimary(el') = ReadPrimary(el)
              /\ ReadConfig(el') = ReadConfig(el)
              /\ ~el'.marked
              /\ el'.dirty = el.dirty
              /\ el'.labelCalls = <<>>)]_vars

\* useState("b", false) was called twice in a row on an element that has a
\* label, and "b" is the one active state.
C4_Witness ==
    /\ repeat
    /\ last = Called("useState", "b", FALSE)
    /\ el.currentStates = <<"b">>
    /\ el.textContent # None

\* C5: the states map never holds an entry under the reserved normal name,
\* so that useState of the reserved name restores every primary property
\* from the normal baseline.
C5_ReservedNameNotAKey ==
    /\ el.states[PRESERVED_NORMAL_STATE] = None
    /\ (CalledNormal /\ el.normalState # None)
          => \A key \in PrimaryKeys : el[key] = el.normalState[1][key]

-----------------------------------------------------------------------------
(* Animation: properties *)

\* The animators of the latest call that have completed.
Finished == run.instant \cup run.ticked

\* The latest operation is an animateTo or animateFrom call.
CalledAnimate == last.op \in {"animateTo", "animateFrom"}

\* Nothing is left for the host to tick.
NothingRunning ==
    \A id \in 1..MaxAnimators :
        el.anim[id] = None \/ el.anim[id][1].status # "running"

\* C6: an animateTo/animateFrom call that created N >= 1 animators (and was
\* not cancelled by stopAnimation) invokes its callback at most once, never
\* before all N animators have completed, and has invoked it once the
\* attached host has nothing left to tick.
C6_CompletionCoordination ==
    (run.made # {} /\ ~run.thrown /\ ~run.cancelled) =>
        /\ run.called <= 1
        /\ (run.called = 1 => run.made \subseteq Finished)
        /\ ((el.zr # None /\ NothingRunning) => run.called = 1)

\* C7: an animateTo call with forceAnimate unset and a descriptor whose every
\* key equals the current value has invoked its callback when it returns,
\* and has created no animator.
C7_EqualTargetSynchronous ==
    (last.op = "animateTo" /\ ~run.force /\ run.equal) =>
        /\ run.sync
        /\ run.made = {}

\* C8: an animateTo call with forceAnimate set and a descriptor equal to the
\* current values creates at least one animator, does not invoke the
\* callback before it returns, and the callback is invoked only once the host
\* has ticked every animator of the call to completion.
C8_ForceAnimate ==
    (~run.reverse /\ run.force /\ run.equal) =>
        /\ run.made # {}
        /\ ~run.sync
        /\ run.instant = {}
        /\ (run.called > 0 => run.made \subseteq run.ticked)

\* The forced call created two animators, the host ticked both, and the
\* callback ran.
C8_Witness ==
    /\ ~run.reverse /\ run.force /\ run.equal
    /\ Cardinality(run.made) = 2
    /\ run.ticked = run.made
    /\ run.called = 1

\* C9: after an animateFrom call that did not fail, every key an animator of
\* the call carries (a key whose live value was present) reads the
\* descriptor's value when the call returns, and reads the value it had
\* before the call once its animator has completed.
C9_AnimateFromSymmetry ==
    (run.reverse /\ ~run.thrown) =>
        \A p \in Paths :
            run.carry[p] # 0 =>
                /\ (last.op = "animateFrom" => LiveAt(el, p) = run.want[p])
                /\ (run.carry[p] \in Finished => LiveAt(el, p) = run.pre[p])

\* animateFrom({origin: [9, 9]}) on origin [7, 7]: the host ticked the
\* animator to completion and origin reads [7, 7] again.
C9_Witness ==
    /\ run.reverse /\ ~run.thrown
    /\ run.carry[PathOf("", "origin")] \in run.ticked
    /\ run.want[PathOf("", "origin")] = Some(<<9, 9>>)
    /\ run.pre[PathOf("", "origin")] = Some(<<7, 7>>)
    /\ LiveAt(el, PathOf("", "origin")) = Some(<<7, 7>>)

\* C10: every animateTo/animateFrom call whose descriptor holds an object
\* nested two levels deep fails with the nesting-depth error.
C10_NestingGuardDetects ==
    (CalledAnimate /\ run.deep) => run.thrown

\* C11: an animateTo/animateFrom call that fails with the nesting-depth
\* error has changed nothing: no property of the node or of its style is
\* assigned, the animator list is as before the call, and the animators that
\* were on it are neither stopped nor dropped.
C11_NestingGuardAtomic ==
    [][(last'.op \in {"animateTo", "animateFrom"} /\ run'.thrown) =>
          /\ el'.origin = el.origin
          /\ Read(el', "origin") = Read(el, "origin")
          /\ el'.style = el.style
          /\ el'.animators = el.animators
          /\ el'.anim = el.anim]_vars

-----------------------------------------------------------------------------
(* Clip paths: properties *)

\* The elements whose clip path is c.
Holders(c) == {n \in Owners : nodes[n].clipPath = Some(c)}

\* C12: a clip path is the clip path of at most one element, and its clip
\* target is the element that holds it.
C12_ClipSingleOwner ==
    \A c \in Clips :
        /\ Cardinality(Holders(c)) <= 1
        /\ \A n \in Holders(c) : nodes[c].clipTarget = Some(n)

\* C13: a clip path has the host of the element that holds it, and a clip
\* path no element holds has neither a host nor a clip target.
C13_ClipMirrorsHost ==
    \A c \in Clips :
        /\ \A n \in Holders(c) : nodes[c].zr = nodes[n].zr
        /\ (Holders(c) = {} => (nodes[c].zr = None /\ nodes[c].clipTarget = None))

\* The stop calls the animators on the list receive from stopAnimation.
StopCallsOf(list, forwardToLast) ==
    [i \in 1..Len(list) |-> <<list[i], forwardToLast>>]

\* C14: stopAnimation stops every animator on the list once, with the
\* argument it was given, and leaves the list empty; an animateTo/animateFrom
\* call stops every animator that was on the list once, without jumping to
\* the end, and when it returns the list holds only animators it created.
C14_Supersession ==
    [][/\ last'.op = "stopAnimation" =>
            /\ el'.stopCalls = StopCallsOf(el.animators, last'.keep)
            /\ el'.animators = <<>>
       /\ last'.op \in {"animateTo", "animateFrom"} =>
            /\ el'.stopCalls = StopCallsOf(el.animators, FALSE)
            /\ \A i \in 1..Len(el'.animators) : el'.animators[i] \in run'.made]_vars

\* An animateTo call stopped the two animators of the call before it and
\* left two of its own on the list.
C14_Witness ==
    /\ last.op = "animateTo"
    /\ Len(el.stopCalls) = 2
    /\ Len(el.animators) = 2

-----------------------------------------------------------------------------
(* Dragging: properties *)

\* The matrix drift starts from: the identity if the element has none.
MatrixOf(e) == IF e.transform = None THEN <<1, 0, 0, 1, 0, 0>> ELSE e.transform[1]

\* C15: drift(dx, dy) adds dx and dy to the translation of the matrix (the
\* identity if there was none) and leaves its other four components alone;
\* with draggable "horizontal" the vertical translation does not change,
\* with "vertical" the horizontal one does not.
C15_DriftAxisLock ==
    [][el'.driftBy # None =>
          LET m == MatrixOf(el)
              n == MatrixOf(el')
              dx == el'.driftBy[1][1]
              dy == el'.driftBy[1][2]
          IN  /\ el'.transform # None
              /\ \A i \in 1..4 : n[i] = m[i]
              /\ n[5] = IF el.draggable = "vertical" THEN m[5] ELSE m[5] + dx
              /\ n[6] = IF el.draggable = "horizontal" THEN m[6] ELSE m[6] + dy]_vars

\* drift(2, 2) on an element locked to the horizontal axis that had no
\* matrix: only the horizontal translation moved.
C15_Witness ==
    /\ el.draggable = "horizontal"
    /\ el.driftBy = Some(<<2, 2>>)
    /\ el.transform = Some(<<1, 0, 0, 1, 2, 0>>)

-----------------------------------------------------------------------------
(* Animation: further properties *)

\* C16: every animator created by an animateTo/animateFrom call that creates
\* two or more is started exactly once by the call.
C16_StartedExactlyOnce ==
    (~run.thrown /\ Cardinality(run.made) >= 2) =>
        \A id \in run.made : run.starts[id] = 1

-----------------------------------------------------------------------------
(* Animation: properties of the trailing arguments *)

\* The types of the four trailing arguments of the latest call.
ShapeOf(args) == [i \in 1..4 |-> args[i].type]

\* The shapes animateTo documents: (), (callback), (time, delay),
\* (time, easing), (time, callback), (time, delay, callback),
\* (time, easing, callback), (time, delay, easing, callback).
AcceptedShapes ==
    { <<"undefined", "undefined", "undefined", "undefined">>,
      <<"function", "undefined", "undefined", "undefined">>,
      <<"number", "number", "undefined", "undefined">>,
      <<"number", "string", "undefined", "undefined">>,
      <<"number", "function", "undefined", "undefined">>,
      <<"number", "number", "function", "undefined">>,
      <<"number", "string", "function", "undefined">>,
      <<"number", "number", "string", "function">> }

\* The callable among the arguments, undefined if there is none.
SuppliedCallback(args) ==
    IF \E i \in 1..4 : isFunction(args[i])
    THEN args[CHOOSE i \in 1..4 : isFunction(args[i])]
    ELSE Undefined

\* C17: after a call in one of the documented shapes, the animators of the
\* call have the duration given (500 if none was given) and the delay given
\* (0 if none was given), and the callback is the callable given.
C17_ArgumentNormalization ==
    (CalledAnimate /\ ShapeOf(run.args) \in AcceptedShapes) =>
        /\ run.callback = SuppliedCallback(run.args)
        /\ \A id \in run.made :
              el.anim[id] # None =>
                  /\ el.anim[id][1].time =
                        IF run.args[1].type = "number" THEN run.args[1] ELSE Num(500)
                  /\ el.anim[id][1].delay =
                        IF run.args[2].type = "number" THEN run.args[2] ELSE Num(0)

\* No animator of the latest call has the property at path p among its keys.
NotCarried(p) ==
    /\ p \in Paths => run.carry[p] = 0
    /\ \A id \in run.made :
          el.anim[id] # None =>
              \A i \in 1..Len(el.anim[id][1].keys) :
                  PathOf(el.anim[id][1].obj, el.anim[id][1].keys[i]) # p

\* C18: when an animateTo/animateFrom call that does not fail returns, a
\* property the descriptor names and whose live value was absent reads the
\* descriptor's value after animateTo and is still absent after animateFrom,
\* and no animator of the call carries it.
C18_AbsentLiveValue ==
    (CalledAnimate /\ ~run.thrown) =>
        \A p \in KeyPaths :
            el.absent[p] # None =>
                /\ LiveAt(el, p) = IF run.reverse THEN None ELSE el.absent[p]
                /\ NotCarried(p)

\* animateTo({origin: [9, 9], style: {x: 5}}) on an element without origin
\* and with style.x = 0: origin was assigned, style.x is animated.
C18_Witness ==
    /\ last.op = "animateTo" /\ ~run.thrown
    /\ el.absent[PathOf("", "origin")] = Some(<<9, 9>>)
    /\ LiveAt(el, PathOf("", "origin")) = Some(<<9, 9>>)
    /\ run.carry[PathOf("style", "x")] # 0
    /\ Len(el.animators) = 1

\* C19: after useStates(L), for a non-empty list L of defined, non-normal
\* state names in which no two adjacent names are equal, currentStates is L
\* in order, whichever stack was active before the call.
C19_UseStatesSetsStack ==
    \A L \in NameLists :
        (/\ el.listGiven = Some(L)
         /\ \A i \in 1..Len(L) :
                L[i] # PRESERVED_NORMAL_STATE /\ el.states[L[i]] # None
         /\ \A i \in 1..(Len(L) - 1) : L[i] # L[i + 1])
            => el.currentStates = L

\* useStates(["a", "b", "a"]), a list that names a state twice but not in
\* a row, returned on an element that has a label, which was switched by
\* the call: the stack is exactly the list.
C19_Witness ==
    /\ el.listGiven = Some(<<"a", "b", "a">>)
    /\ el.currentStates = <<"a", "b", "a">>
    /\ el.textContent # None
    /\ el.labelCalls # <<>>

-----------------------------------------------------------------------------
(* The attached label: properties *)

\* The hint as update() resolves it: 'auto' is the element's own colour.
Resolved(hint, auto) == IF hint = "auto" THEN auto ELSE hint

\* C20: after update() on an element with a label, the label's default text
\* colour is the computed one (fill '#fff' and stroke '#000' for 'auto') if
\* the configuration's position is an inside placement and an inside-fill or
\* inside-stroke hint is set, and none in every other case.
C20_InsideColorOverride ==
    (last.op = "update" /\ el.textContent # None) =>
        LET textConfig == ReadConfig(el)[1]
            color == DefaultTextColor(el, el.textContent[1])
        IN  IF /\ isInside(textConfig.position)
               /\ (NotNull(textConfig.insideFill) \/ NotNull(textConfig.insideStroke))
            THEN /\ color # None
                 /\ NotNull(textConfig.insideFill) =>
                        color[1].fill = Resolved(textConfig.insideFill, "#fff")
                 /\ NotNull(textConfig.insideStroke) =>
                        color[1].stroke = Resolved(textConfig.insideStroke, "#000")
            ELSE color = None

-----------------------------------------------------------------------------
(* Animation: registration with the host *)

\* The animators on the element's list.
Listed == {el.anim[el.animators[k]][1] : k \in 1..Len(el.animators)}

\* C22: while the element is in a host, every animator on its list is
\* registered with that host's animation, whether it was created while the
\* element was in the host or before addSelfToZr; after removeSelfFromZr(zr)
\* no animator on the list is registered with zr.
C22_RegistrationFollowsHost ==
    \A a \in Listed :
        /\ el.zr # None => el.zr[1] \in a.registered
        /\ last.op = "removeSelfFromZr" => last.name \notin a.registered

\* The element was added to a host with two animators on its list that
\* were created before.
C22_Witness ==
    /\ last.op = "addSelfToZr"
    /\ Len(el.animators) = 2
    /\ \A a \in Listed : a.registered = {"zr"} /\ a.status = "running"

-----------------------------------------------------------------------------
(* The label of an element in a host: properties *)

\* C21: after each setTextContent, removeTextContent, addSelfToZr and
\* removeSelfFromZr call the label the element has carries the element's
\* host reference and a label it does not have carries none; a label the
\* call detached (replaced by another label, or removed) is no longer
\* registered with the host its reference named; after removeTextContent
\* the element has no label.
C21_LabelMirrorsHost ==
    [][/\ \A l \in Labels :
             IF nodes'[Host].textContent = Some(l)
             THEN nodes'[l].zr = nodes'[Host].zr
             ELSE nodes'[l].zr = None
       /\ \A l \in Labels :
             (nodes[Host].textContent = Some(l) /\ nodes'[Host].textContent # Some(l)
                 /\ nodes[l].zr # None)
                 => nodes[l].zr[1] \notin nodes'[l].reg
       /\ (last'.op = "removeTextContent" => nodes'[Host].textContent = None)]_vars

\* The element, in host zr with a label, was given another label: the new
\* one is in zr, the old one in no host and registered with none.
C21_Witness ==
    /\ last = Called("setTextContent", "label2", TRUE)
    /\ nodes[Host].zr = Some("zr")
    /\ nodes[Host].textContent = Some("label2")
    /\ nodes["label2"].zr = Some("zr") /\ "zr" \in nodes["label2"].reg
    /\ nodes["label"].zr = None /\ nodes["label"].reg = {}
    /\ "zr2" \notin nodes[Host].reg

-----------------------------------------------------------------------------
(* Attributes and visibility: properties *)

\* useState(stateName, keepCurrentStates) applies a state: it does not
\* return early.
Applies(e, stateName, keepCurrentStates) ==
    /\ hasState(e) \/ stateName # PRESERVED_NORMAL_STATE
    /\ ~stateNoChange(e.currentStates, stateName, keepCurrentStates)
    /\ e.states[stateName] # None \/ stateName = PRESERVED_NORMAL_STATE

\* C23: after attr, a useState call that applies a state, setTextConfig,
\* setTextContent, removeTextContent of an attached label, drift, hide and
\* show, the dirty flag is true, and the host was told to refresh if the
\* element is in one.
C23_MutationMarksDirty ==
    [][(\/ last'.op \in {"attr", "setTextConfig", "setTextContent", "drift",
                        "hide", "show"}
        \/ (last'.op = "useState" /\ Applies(el, last'.name, last'.keep))
        \/ (last'.op = "removeTextContent" /\ el.textContent # None))
          => (el'.dirty /\ (el'.zr # None => el'.refreshed))]_vars

\* C25: attr on position, scale or origin changes no vector of a state
\* defined in the states map.
C25_AttrLeavesStateDefinitions ==
    [][last'.op = "attr" =>
          /\ el'.states = el.states
          /\ \A a \in StateAddrs : el'.arr[a] = el.arr[a]]_vars

-----------------------------------------------------------------------------
(* The normal snapshot and the state stack: properties *)

\* C24: a useState call changes the normal snapshot only when it moves the
\* element from no active state to an active one; a useState call with a
\* name that has no entry does not change it; a useStates call made while a
\* state is active does not change it.
C24_SnapshotWrittenOnLeavingNormal ==
    [][/\ (last'.op = "useState" /\ el'.normalState # el.normalState)
             => (~hasState(el) /\ hasState(el'))
       /\ (last'.op = "useState" /\ last'.name # PRESERVED_NORMAL_STATE
             /\ el.states[last'.name] = None)
             => el'.normalState = el.normalState
       /\ (el'.listGiven # None /\ hasState(el))
             => el'.normalState = el.normalState]_vars

\* C26: currentStates holds neither the reserved name nor a name without
\* an entry in the states map, holds no name at two adjacent positions, and
\* hasState() is true exactly when it is not empty.
C26_StackWellFormed ==
    LET currentStates == el.currentStates IN
    /\ \A i \in 1..Len(currentStates) :
          /\ currentStates[i] # PRESERVED_NORMAL_STATE
          /\ el.states[currentStates[i]] # None
    /\ \A i \in 1..(Len(currentStates) - 1) : currentStates[i] # currentStates[i + 1]
    /\ hasState(el) <=> (currentStates # <<>>)

\* useState('a', true) was called twice in a row over state b: a is on the
\* stack once.
C26_Witness ==
    /\ last = Called("useState", "a", TRUE)
    /\ repeat
    /\ el.currentStates = <<"b", "a">>

-----------------------------------------------------------------------------
(* Animation: stopped calls *)

AnimateCalls == {"animateTo", "animateFrom"}

OnList(e, id) == \E k \in 1..Len(e.animators) : e.animators[k] = id

\* C27: an animator that can still complete was made by the latest
\* animateTo/animateFrom call, that call was not stopped, and the animator
\* is on the element's list; once the call was stopped its callback is not
\* invoked any more; an animator leaves the list, other than by a stop, only
\* by completing itself.
C27_StoppedCallNeverCompletes ==
    [][/\ \A id \in 1..MaxAnimators :
             (el.anim[id] # None /\ el.anim[id][1].status = "running")
                 => (id \in run.made /\ ~run.cancelled /\ OnList(el, id))
       /\ (run.cancelled /\ last'.op \notin AnimateCalls)
             => run'.called = run.called
       /\ (last'.op \notin AnimateCalls \cup {"stopAnimation"})
             => \A id \in 1..MaxAnimators :
                    (OnList(el, id) /\ ~OnList(el', id))
                        => (id \in run'.ticked /\ id \notin run.ticked)]_vars

\* A call stopped the running animators of the call before it and its own
\* animators run; nothing was called back.
C27_Witness ==
    /\ last.op \in AnimateCalls
    /\ \E k \in 1..Len(el.stopCalls) : TRUE
    /\ \E id \in run.made : el.anim[id] # None /\ el.anim[id][1].status = "running"
    /\ run.called = 0
    /\ ~run.cancelled

====
